---- MODULE Spec2Model ----
(***************************************************************************)
(* Model of the PropertyData Flask service (src/app.py): the module-level *)
(* load of the document classifier and the six request handlers.  The     *)
(* server handles one request at a time; the /predict handler is split at *)
(* its external calls, every other handler is one step.                   *)
(***************************************************************************)
EXTENDS Integers, Sequences, FiniteSets, TLC

(* ------------------------------ bounds -------------------------------- *)

\* Longest PDF, in pages, an upload holds.
MaxPages == 3

\* Most rows a scraping result holds.
MaxRows == 2

\* Most temporary files the process creates over its life.
MaxTmp == 2

(* --------------------------- Python values ---------------------------- *)

\* Python strs the code inspects are sequences of one-character strings.
S_address == <<"a", "d", "d", "r", "e", "s", "s">>
S_listing_type == <<"l", "i", "s", "t", "i", "n", "g", "_", "t", "y", "p", "e">>
S_past_days == <<"p", "a", "s", "t", "_", "d", "a", "y", "s">>
S_radius == <<"r", "a", "d", "i", "u", "s">>
S_mls_only == <<"m", "l", "s", "_", "o", "n", "l", "y">>
S_limit == <<"l", "i", "m", "i", "t">>
S_pdf == <<".", "p", "d", "f">>
S_for_sale == <<"f", "o", "r", "_", "s", "a", "l", "e">>

PyNone == [t |-> "NoneType", val |-> "None"]
PyFalse == [t |-> "bool", val |-> FALSE]
PyInt(n) == [t |-> "int", val |-> n]
PyStr(s) == [t |-> "str", val |-> s]
PyList(l) == [t |-> "list", val |-> l]
PyDict(d) == [t |-> "dict", val |-> d]
PyNaN == [t |-> "float", val |-> "nan"]

\* bool(v): None, 0, False and the empty str, list and dict are falsy.
Truthy(v) ==
  CASE v.t = "NoneType" -> FALSE
    [] v.t = "bool" -> v.val
    [] v.t = "int" -> v.val # 0
    [] v.t = "float" -> TRUE
    [] v.t = "str" -> Len(v.val) > 0
    [] v.t = "list" -> Len(v.val) > 0
    [] v.t = "dict" -> DOMAIN v.val # {}

\* s occurs in t as a contiguous run of characters.
IsSubstring(s, t) ==
  \E k \in 0..(Len(t) - Len(s)) : \A j \in 1..Len(s) : t[k + j] = s[j]

\* `key in v` can be evaluated: v is a container.
InDefined(v) == v.t \in {"dict", "list", "str"}

\* `key in v` for a str key: a key of a dict, an element of a list, a
\* substring of a str.
In(key, v) ==
  CASE v.t = "dict" -> key \in DOMAIN v.val
    [] v.t = "list" -> \E k \in 1..Len(v.val) :
                          v.val[k].t = "str" /\ v.val[k].val = key
    [] v.t = "str" -> IsSubstring(key, v.val)

\* v[key] for a str key can be evaluated: only a dict takes a str index.
GetItemDefined(key, v) == v.t = "dict" /\ key \in DOMAIN v.val

\* dict.get(key, default)
Get(d, key, default) == IF key \in DOMAIN d.val THEN d.val[key] ELSE default

LowerChar(c) ==
  CASE c = "P" -> "p"
    [] c = "D" -> "d"
    [] c = "F" -> "f"
    [] c = "A" -> "a"
    [] OTHER -> c

\* str.lower()
Lower(s) == [k \in 1..Len(s) |-> LowerChar(s[k])]

\* str.endswith(suffix)
EndsWith(s, suffix) ==
  /\ Len(s) >= Len(suffix)
  /\ \A k \in 1..Len(suffix) : s[Len(s) - Len(suffix) + k] = suffix[k]

\* max() of a non-empty sequence of numbers.
MaxOf(row) == CHOOSE m \in {row[k] : k \in 1..Len(row)} :
                \A k \in 1..Len(row) : row[k] <= m

(* ------------------------------ state --------------------------------- *)

VARIABLES
  pc,           \* position of the process: startup, idle, inside /predict, done
  doc_model,    \* the module-level classifier handle
  tempfs,       \* temporary files on disk: name -> content
  created,      \* number of temporary files created so far
  request,      \* the request being handled
  temp_file,    \* /predict local: name of the NamedTemporaryFile
  temp_path,    \* /predict local: bound only after the upload is saved
  images,       \* /predict local
  predictions,  \* /predict local
  calls,        \* external calls made for the current request, in order
  response      \* response of the current request

vars == <<pc, doc_model, tempfs, created, request, temp_file, temp_path,
          images, predictions, calls, response>>

locals == <<temp_file, temp_path, images, predictions>>

MODEL_PATH == "projects/doc_classifier_model.joblib"

\* A classifier pipeline; sklearn exposes predict_proba only when the final
\* estimator has it.
Model(proba) == [t |-> "Pipeline", has_predict_proba |-> proba]
NoModel == [t |-> "NoneType", has_predict_proba |-> FALSE]
Models == {Model(TRUE), Model(FALSE)}

Unbound == <<>>
TmpName(n) == <<"tmp", n>>
EmptyFile == <<"empty">>
NoRequest == [route |-> "none"]
NoResponse == [status |-> 0, body |-> <<>>]

Msgs == {"e1", "e2"}

\* The server takes the next request when the previous one is over.
Ready == pc = "idle"

Respond(status, body) ==
  /\ response' = [status |-> status, body |-> body]
  /\ pc' = "done"

Init ==
  /\ pc = "startup"
  /\ doc_model = NoModel
  /\ tempfs = <<>>
  /\ created = 0
  /\ request = NoRequest
  /\ temp_file = Unbound
  /\ temp_path = Unbound
  /\ images = <<>>
  /\ predictions = <<>>
  /\ calls = <<>>
  /\ response = NoResponse

(* ----------------------------- startup -------------------------------- *)

\* joblib.load(MODEL_PATH) returns the model, or the file is missing and the
\* handle stays None.
LoadModel ==
  /\ pc = "startup"
  /\ \/ doc_model' \in Models
     \/ doc_model' = NoModel
  /\ pc' = "idle"
  /\ UNCHANGED <<tempfs, created, request, locals, calls, response>>

\* A mutation of ModelStatus: the status does not look at the handle.
ModelStatusAlwaysLoaded(m) == "loaded"

\* "loaded" if doc_model is not None else "not_loaded"
ModelStatus(m) == IF m # NoModel THEN "loaded" ELSE "not_loaded"

(* ------------------------------- GET / -------------------------------- *)

health_check ==
  /\ Ready
  /\ request' = [route |-> "/"]
  /\ UNCHANGED locals
  /\ calls' = <<>>
  /\ Respond(200, [status |-> "ok",
                   message |-> "PropertyData API is running.",
                   document_classification_model |-> ModelStatus(doc_model)])
  /\ UNCHANGED <<doc_model, tempfs, created>>

(* -------------------------- GET /search-options ----------------------- *)

search_options ==
  /\ Ready
  /\ request' = [route |-> "/search-options"]
  /\ UNCHANGED locals
  /\ calls' = <<>>
  /\ Respond(200, [listing_types |-> <<"for_sale", "for_rent", "sold", "pending">>])
  /\ UNCHANGED <<doc_model, tempfs, created>>

(* ----------------------------- GET /api-info -------------------------- *)

api_info ==
  /\ Ready
  /\ request' = [route |-> "/api-info"]
  /\ UNCHANGED locals
  /\ calls' = <<>>
  /\ Respond(200, [service_name |-> "PropertyData API",
                   status |-> IF doc_model # NoModel THEN "available"
                                                     ELSE "unavailable",
                   model_status |-> ModelStatus(doc_model)])
  /\ UNCHANGED <<doc_model, tempfs, created>>

(* ---------------------------- GET /model-info ------------------------- *)

\* The metadata sidecar: missing, an empty object, an object, or unreadable.
MetadataOutcomes == {"FileNotFoundError", "empty", "present", "Exception"}

model_info_body(meta) ==
  IF meta = "present"
    THEN [model_loaded |-> TRUE, model_path |-> MODEL_PATH, accuracy |-> "metadata"]
    ELSE [model_loaded |-> TRUE, model_path |-> MODEL_PATH]

model_info ==
  /\ Ready
  /\ request' = [route |-> "/model-info"]
  /\ UNCHANGED locals
  /\ calls' = <<>>
  /\ \/ /\ doc_model = NoModel
        /\ Respond(503, [model_loaded |-> FALSE,
                         error |-> "Document classification model not loaded"])
     \/ /\ doc_model # NoModel
        /\ \E meta \in MetadataOutcomes :
             IF meta = "Exception"
               THEN \E m \in Msgs :
                      Respond(500, [model_loaded |-> TRUE, error |-> m])
               ELSE Respond(200, model_info_body(meta))
  /\ UNCHANGED <<doc_model, tempfs, created>>

(* ----------------------------- POST /enrich --------------------------- *)

\* What request.json evaluates to: None for a body that is no JSON, else the
\* parsed value, which need not be an object.
JsonBodies == <<
  PyNone,
  PyDict(<<>>),
  PyDict(S_address :> PyStr(<<"x">>)),
  PyDict(S_address :> PyStr(<<>>)),
  PyDict(S_listing_type :> PyStr(<<"s", "o", "l", "d">>)),
  PyDict((S_address :> PyStr(<<"x">>)) @@ (S_limit :> PyInt(5))
           @@ (S_mls_only :> [t |-> "bool", val |-> TRUE])),
  PyList(<<>>),
  PyList(<<PyStr(S_address)>>),
  PyList(<<PyStr(<<"x">>)>>),
  PyStr(S_address),
  PyStr(<<"x">>),
  PyInt(0),
  PyInt(5) >>

\* The table the scraping library returns: column labels and rows of cells.
DataFrame(columns, data) == [t |-> "DataFrame", columns |-> columns, data |-> data]

Columns == <<"price", "street">>

SampleRows == { <<PyNaN, PyStr(<<"x">>)>>,
                <<PyInt(0), PyNone>>,
                <<PyInt(7), PyStr(<<>>)>> }

Tables == UNION { [1..n -> SampleRows] : n \in 0..MaxRows }

\* isinstance(properties, pd.DataFrame)
IsDataFrame(x) == x.t = "DataFrame"

\* DataFrame.empty: some axis has length 0.
Empty(df) == Len(df.data) = 0 \/ Len(df.columns) = 0

ColumnIndex(df, c) == CHOOSE k \in 1..Len(df.columns) : df.columns[k] = c

\* DataFrame.to_dict(orient='records'): one dict per row, column -> cell.
to_dict_records(df) ==
  [r \in 1..Len(df.data) |->
     [c \in {df.columns[k] : k \in 1..Len(df.columns)} |->
        df.data[r][ColumnIndex(df, c)]]]

\* A mutation of isna: every falsy cell counts as missing.
isna_falsy(v) == ~Truthy(v) \/ (v.t = "float" /\ v.val = "nan")

\* pd.isna on a scalar cell: None and NaN.
isna(v) == v.t = "NoneType" \/ (v.t = "float" /\ v.val = "nan")

\* The clean-up loop over the records.
CleanRecords(result) ==
  [r \in 1..Len(result) |->
     [key \in DOMAIN result[r] |->
        IF isna(result[r][key]) THEN PyNone ELSE result[r][key]]]

\* The keyword arguments of the scrape_property call, defaults applied.
ScrapeArgs(json) ==
  [location |-> json.val[S_address],
   listing_type |-> Get(json, S_listing_type, PyStr(S_for_sale)),
   past_days |-> Get(json, S_past_days, PyNone),
   radius |-> Get(json, S_radius, PyNone),
   mls_only |-> Get(json, S_mls_only, PyFalse),
   limit |-> Get(json, S_limit, PyInt(100))]

Call(fn, arg, status, out) == [fn |-> fn, arg |-> arg, status |-> status, out |-> out]

\* A mutation of EnrichResult: an empty result reported as an error.
EnrichResultNotFound(properties) ==
  IF IsDataFrame(properties) /\ ~Empty(properties)
    THEN LET result == CleanRecords(to_dict_records(properties))
         IN [status |-> 200,
             body |-> [success |-> TRUE, count |-> Len(result), properties |-> result]]
    ELSE [status |-> 404,
          body |-> [success |-> FALSE, count |-> 0, properties |-> <<>>,
                    message |-> "No properties found for the given address"]]

\* The response for what scrape_property returned.
EnrichResult(properties) ==
  IF IsDataFrame(properties) /\ ~Empty(properties)
    THEN LET result == CleanRecords(to_dict_records(properties))
         IN [status |-> 200,
             body |-> [success |-> TRUE, count |-> Len(result), properties |-> result]]
    ELSE [status |-> 200,
          body |-> [success |-> TRUE, count |-> 0, properties |-> <<>>,
                    message |-> "No properties found for the given address"]]

\* An exception no handler of the view catches: Flask answers 500.
Unhandled == Respond(500, [error |-> "Internal Server Error"])

MissingAddress == Respond(400, [error |-> "Missing 'address' in request body"])

\* The try block of enrich_property: the call and its four outcomes.
EnrichScrape(json) ==
  LET args == ScrapeArgs(json) IN
  \/ \E data \in Tables :
       LET df == DataFrame(Columns, data) IN
       /\ calls' = <<Call("scrape_property", args, "ok", df)>>
       /\ Respond(EnrichResult(df).status, EnrichResult(df).body)
  \/ /\ calls' = <<Call("scrape_property", args, "ok", PyNone)>>
     /\ Respond(EnrichResult(PyNone).status, EnrichResult(PyNone).body)
  \/ \E m \in Msgs :
       /\ calls' = <<Call("scrape_property", args, "ValueError", m)>>
       /\ Respond(400, [error |-> m])
  \/ \E m \in Msgs :
       /\ calls' = <<Call("scrape_property", args, "Exception", m)>>
       /\ Respond(500, [error |-> "An internal error occurred", details |-> m])

\* `not request.json or 'address' not in request.json`, then
\* request.json['address'].
AddressCheck(json) ==
  IF ~Truthy(json) THEN "reject"
  ELSE IF ~InDefined(json) THEN "TypeError"
  ELSE IF ~In(S_address, json) THEN "reject"
  ELSE IF ~GetItemDefined(S_address, json) THEN "TypeError"
  ELSE "pass"

enrich_property ==
  /\ Ready
  /\ \E b \in 1..Len(JsonBodies) :
       LET json == JsonBodies[b] IN
       /\ request' = [route |-> "/enrich", json |-> json]
       /\ CASE AddressCheck(json) = "reject" -> calls' = <<>> /\ MissingAddress
            [] AddressCheck(json) = "TypeError" -> calls' = <<>> /\ Unhandled
            [] AddressCheck(json) = "pass" -> EnrichScrape(json)
  /\ UNCHANGED locals
  /\ UNCHANGED <<doc_model, tempfs, created>>

(* ----------------------------- POST /predict -------------------------- *)

F_a_pdf == <<"a", ".", "p", "d", "f">>
F_A_PDF == <<"A", ".", "P", "D", "F">>

\* Filenames of the uploads: empty, PDF names in both cases, and names that
\* only contain "pdf" or ".pdf" without ending in it.
Filenames == { <<>>, F_a_pdf, F_A_PDF, <<"p", "d", "f">>,
               <<"a", ".", "p", "d", "f", "a">>, <<"a", ".", "f", "d", "p">> }

Images == {"imgA", "imgB"}

\* The page images an uploaded PDF converts to.
Pdfs == UNION { [1..n -> Images] : n \in 0..MaxPages }

Texts == { <<>>, <<"a", "b">> }
Labels == {"deed", "note"}
Probas == { << <<30, 70>> >> }

PyFloat(x) == [t |-> "float", val |-> x]

\* A mutation of PredictValidate: the suffix is compared without its dot.
PredictValidateNoDot(model, has_file, filename) ==
  IF model = NoModel THEN "503"
  ELSE IF ~has_file THEN "no_file"
  ELSE IF filename = <<>> THEN "empty_filename"
  ELSE IF ~EndsWith(Lower(filename), <<"p", "d", "f">>) THEN "not_pdf"
  ELSE "ok"

\* A mutation of PredictValidate: the upload is looked at before the model.
PredictValidateFileFirst(model, has_file, filename) ==
  IF ~has_file THEN "no_file"
  ELSE IF filename = <<>> THEN "empty_filename"
  ELSE IF ~EndsWith(Lower(filename), S_pdf) THEN "not_pdf"
  ELSE IF model = NoModel THEN "503"
  ELSE "ok"

\* The checks before the try block, in the code's order.
PredictValidate(model, has_file, filename) ==
  IF model = NoModel THEN "503"
  ELSE IF ~has_file THEN "no_file"
  ELSE IF filename = <<>> THEN "empty_filename"
  ELSE IF ~EndsWith(Lower(filename), S_pdf) THEN "not_pdf"
  ELSE "ok"

PredictError(v) ==
  CASE v = "503" -> "Document classification model not loaded. Cannot perform prediction."
    [] v = "no_file" -> "No file part in the request"
    [] v = "empty_filename" -> "No file selected for uploading"
    [] v = "not_pdf" -> "Only PDF files are supported"

predict_document_type ==
  /\ Ready
  /\ \E has_file \in BOOLEAN, filename \in Filenames, pdf \in Pdfs :
       LET v == PredictValidate(doc_model, has_file, filename) IN
       \* an upload that is not there has no name and no content
       /\ ~has_file => filename = <<>> /\ pdf = <<>>
       /\ request' = [route |-> "/predict", has_file |-> has_file,
                      filename |-> filename, pdf |-> pdf]
       /\ IF v = "ok"
            THEN /\ created < MaxTmp
                 /\ pc' = "predict_save"
                 /\ response' = NoResponse
            ELSE Respond(IF v = "503" THEN 503 ELSE 400, [error |-> PredictError(v)])
  /\ UNCHANGED locals
  /\ calls' = <<>>
  /\ UNCHANGED <<doc_model, tempfs, created>>

\* os.unlink(path) on the files fs; a missing path raises.
UnlinkDefined(fs, path) == path # Unbound /\ path \in DOMAIN fs
Unlink(fs, path) == [n \in DOMAIN fs \ {path} |-> fs[n]]

\* A mutation of ExceptCleanup: the handler answers with what it has so far.
ExceptCleanupPartial(fs, path, m) ==
  /\ tempfs' = IF UnlinkDefined(fs, path) THEN Unlink(fs, path) ELSE fs
  /\ Respond(200, [success |-> TRUE, page_count |-> Len(predictions),
                   predictions |-> predictions])

\* A mutation of ExceptCleanup: a fixed text instead of the exception's.
ExceptCleanupNoDetails(fs, path, m) ==
  /\ tempfs' = IF UnlinkDefined(fs, path) THEN Unlink(fs, path) ELSE fs
  /\ Respond(500, [error |-> "Failed to process PDF", details |-> "error"])

\* The except block: unlink temp_path, ignoring any failure of that (an unbound
\* temp_path raises inside the inner try as well), then answer 500.
ExceptCleanup(fs, path, m) ==
  /\ tempfs' = IF UnlinkDefined(fs, path) THEN Unlink(fs, path) ELSE fs
  /\ Respond(500, [error |-> "Failed to process PDF", details |-> m])

\* The with block: create the named temporary file, save the upload into it,
\* bind temp_path.
predict_save ==
  /\ pc = "predict_save"
  /\ LET name == TmpName(created + 1)
         made == (name :> EmptyFile) @@ tempfs
     IN
     \/ \E m \in Msgs :  \* NamedTemporaryFile raises: nothing is created
          /\ calls' = Append(calls, Call("NamedTemporaryFile", ".pdf", "Exception", m))
          /\ ExceptCleanup(tempfs, temp_path, m)
          /\ UNCHANGED <<created, temp_file, temp_path>>
     \/ \E m \in Msgs :  \* file.save raises inside the with block
          /\ calls' = calls \o <<Call("NamedTemporaryFile", ".pdf", "ok", name),
                                 Call("save", name, "Exception", m)>>
          /\ created' = created + 1
          /\ temp_file' = name
          /\ ExceptCleanup(made, temp_path, m)
          /\ UNCHANGED temp_path
     \/ /\ calls' = calls \o <<Call("NamedTemporaryFile", ".pdf", "ok", name),
                               Call("save", name, "ok", request.pdf)>>
        /\ created' = created + 1
        /\ temp_file' = name
        /\ tempfs' = (name :> request.pdf) @@ tempfs
        /\ temp_path' = name
        /\ pc' = "predict_convert"
        /\ UNCHANGED response
  /\ UNCHANGED <<doc_model, request, images, predictions>>

\* images = convert_from_path(temp_path); predictions = []
predict_convert ==
  /\ pc = "predict_convert"
  /\ \/ \E m \in Msgs :
          /\ calls' = Append(calls, Call("convert_from_path", temp_path, "Exception", m))
          /\ ExceptCleanup(tempfs, temp_path, m)
          /\ UNCHANGED images
     \/ /\ calls' = Append(calls, Call("convert_from_path", temp_path, "ok",
                                       tempfs[temp_path]))
        /\ images' = tempfs[temp_path]
        /\ pc' = "predict_loop"
        /\ UNCHANGED <<tempfs, response>>
  /\ UNCHANGED <<doc_model, created, request, temp_file, temp_path, predictions>>

\* A mutation of Entry: the enumerate index is used as the page number.
EntryZeroBased(i, prediction, confidence, text) ==
  [page |-> i,
   predicted_label |-> prediction[1],
   confidence |-> confidence,
   text_length |-> Len(text)]

\* The dict appended for the page with enumerate index i.
Entry(i, prediction, confidence, text) ==
  [page |-> i + 1,
   predicted_label |-> prediction[1],
   confidence |-> confidence,
   text_length |-> Len(text)]

\* One iteration of the loop over enumerate(images); i is the number of
\* iterations completed, each of which appended one entry.
predict_page ==
  /\ pc = "predict_loop"
  /\ Len(predictions) < Len(images)
  /\ LET i == Len(predictions)
         img == images[i + 1]
     IN
     \/ \E m \in Msgs :
          /\ calls' = Append(calls, Call("image_to_string", img, "Exception", m))
          /\ ExceptCleanup(tempfs, temp_path, m)
          /\ UNCHANGED predictions
     \/ \E text \in Texts, m \in Msgs :
          /\ calls' = calls \o <<Call("image_to_string", img, "ok", text),
                                 Call("predict", <<text>>, "Exception", m)>>
          /\ ExceptCleanup(tempfs, temp_path, m)
          /\ UNCHANGED predictions
     \/ \E text \in Texts, prediction \in {<<l>> : l \in Labels}, m \in Msgs :
          /\ doc_model.has_predict_proba
          /\ calls' = calls \o <<Call("image_to_string", img, "ok", text),
                                 Call("predict", <<text>>, "ok", prediction),
                                 Call("predict_proba", <<text>>, "Exception", m)>>
          /\ ExceptCleanup(tempfs, temp_path, m)
          /\ UNCHANGED predictions
     \/ \E text \in Texts, prediction \in {<<l>> : l \in Labels}, proba \in Probas :
          /\ doc_model.has_predict_proba
          /\ calls' = calls \o <<Call("image_to_string", img, "ok", text),
                                 Call("predict", <<text>>, "ok", prediction),
                                 Call("predict_proba", <<text>>, "ok", proba)>>
          /\ predictions' = Append(predictions,
                                   Entry(i, prediction, PyFloat(MaxOf(proba[1])), text))
          /\ UNCHANGED <<pc, tempfs, response>>
     \/ \E text \in Texts, prediction \in {<<l>> : l \in Labels} :
          /\ ~doc_model.has_predict_proba
          /\ calls' = calls \o <<Call("image_to_string", img, "ok", text),
                                 Call("predict", <<text>>, "ok", prediction),
                                 Call("predict_proba", <<text>>, "AttributeError",
                                      "predict_proba")>>
          /\ predictions' = Append(predictions, Entry(i, prediction, PyNone, text))
          /\ UNCHANGED <<pc, tempfs, response>>
  /\ UNCHANGED <<doc_model, created, request, temp_file, temp_path, images>>

\* After the loop: unlink the temporary file and answer.  jsonify raises on a
\* label it cannot serialise, which lands in the except block after the unlink.
predict_finish ==
  /\ pc = "predict_loop"
  /\ Len(predictions) = Len(images)
  /\ \/ /\ tempfs' = Unlink(tempfs, temp_path)
        /\ Respond(200, [success |-> TRUE,
                         filename |-> request.filename,
                         page_count |-> Len(predictions),
                         predictions |-> predictions])
        /\ UNCHANGED calls
     \/ \E m \in Msgs :
          /\ Len(predictions) > 0
          /\ calls' = Append(calls, Call("jsonify", "predictions", "Exception", m))
          /\ ExceptCleanup(Unlink(tempfs, temp_path), temp_path, m)
  /\ UNCHANGED <<doc_model, created, request, locals>>

(* ------------------------- end of a request -------------------------- *)

\* The response is sent; the request, the handler's locals and the response
\* are gone, the process state stays.
finish_request ==
  /\ pc = "done"
  /\ pc' = "idle"
  /\ request' = NoRequest
  /\ temp_file' = Unbound
  /\ temp_path' = Unbound
  /\ images' = <<>>
  /\ predictions' = <<>>
  /\ calls' = <<>>
  /\ response' = NoResponse
  /\ UNCHANGED <<doc_model, tempfs, created>>

Next ==
  \/ LoadModel
  \/ health_check
  \/ search_options
  \/ api_info
  \/ model_info
  \/ enrich_property
  \/ predict_document_type
  \/ predict_save
  \/ predict_convert
  \/ predict_page
  \/ predict_finish
  \/ finish_request

Spec == Init /\ [][Next]_vars


(* ============================ properties ============================== *)

Done(route) == pc = "done" /\ request.route = route

\* The calls of the current request to one collaborator, in order.
CallsOf(fn) == SelectSeq(calls, LAMBDA c : c.fn = fn)

PipelineFns == {"convert_from_path", "image_to_string", "predict", "predict_proba"}

\* The filename ends in ".pdf", whatever the case of its letters.
EndsPdfAnyCase(f) ==
  /\ Len(f) >= 4
  /\ f[Len(f) - 3] = "."
  /\ f[Len(f) - 2] \in {"p", "P"}
  /\ f[Len(f) - 1] \in {"d", "D"}
  /\ f[Len(f)] \in {"f", "F"}

\* The JSON body is an object with the key 'address'.
HasAddressKey(json) == json.t = "dict" /\ S_address \in DOMAIN json.val

\* A cell that holds no value: None or NaN.
Missing(v) == v.t = "NoneType" \/ (v.t = "float" /\ v.val = "nan")

SameValue(a, b) == a.t = b.t /\ a.val = b.val

\* C1: when a /predict request that created a temporary file ends, with 200
\* or with 500, that file is no longer on disk.
C1_TempFileDeleted ==
  (Done("/predict") /\ temp_file # Unbound) => temp_file \notin DOMAIN tempfs

\* The run C1 is about: a request that created its file has ended with 500.
C1_FailedAfterCreate ==
  Done("/predict") /\ temp_file # Unbound /\ response.status = 500

\* C2: a /predict request whose conversion yielded K images and in which no
\* step failed is answered 200 with K entries and page_count K; entry j has
\* page j, the length of the OCR text of image j, the label predicted for
\* that text, and as confidence null without predict_proba, else the maximum
\* of the probabilities returned for that page.
C2_OneEntryPerPage ==
  ( /\ Done("/predict")
    /\ Len(CallsOf("convert_from_path")) = 1
    /\ \A k \in 1..Len(calls) : calls[k].status # "Exception" )
  =>
  LET pages == CallsOf("convert_from_path")[1].out
      K == Len(pages)
      ocr == CallsOf("image_to_string")
      pred == CallsOf("predict")
      proba == CallsOf("predict_proba")
  IN /\ response.status = 200
     /\ response.body.page_count = K
     /\ Len(response.body.predictions) = K
     /\ Len(ocr) = K /\ Len(pred) = K /\ Len(proba) = K
     /\ \A j \in 1..K :
          LET e == response.body.predictions[j] IN
          /\ e.page = j
          /\ ocr[j].arg = pages[j]
          /\ e.text_length = Len(ocr[j].out)
          /\ pred[j].arg = <<ocr[j].out>>
          /\ e.predicted_label = pred[j].out[1]
          /\ proba[j].arg = <<ocr[j].out>>
          /\ IF doc_model.has_predict_proba
               THEN /\ e.confidence.t = "float"
                    /\ \E c \in 1..Len(proba[j].out[1]) :
                         e.confidence.val = proba[j].out[1][c]
                    /\ \A c \in 1..Len(proba[j].out[1]) :
                         proba[j].out[1][c] <= e.confidence.val
               ELSE e.confidence.t = "NoneType"

\* A two-page PDF of two different images answered 200.
C2_TwoPagesAnswered ==
  /\ Done("/predict")
  /\ response.status = 200
  /\ Len(images) = 2
  /\ images[1] # images[2]
  /\ predictions[1].text_length # predictions[2].text_length

\* C3: with the handle not loaded, a /predict request is answered 503
\* whatever it contains, and nothing is processed for it: no temporary file
\* exists or was created and no collaborator was called.
C3_UnloadedIs503 ==
  (request.route = "/predict" /\ doc_model = NoModel)
  =>
  /\ pc = "done"
  /\ response.status = 503
  /\ calls = <<>>
  /\ temp_file = Unbound
  /\ created = 0
  /\ DOMAIN tempfs = {}

\* A valid PDF upload answered 503.
C3_ValidPdfRefused ==
  /\ Done("/predict")
  /\ doc_model = NoModel
  /\ request.has_file
  /\ EndsPdfAnyCase(request.filename)
  /\ Len(request.pdf) > 0
  /\ response.status = 503

\* C4: with the handle loaded, an upload whose filename is empty or does not
\* end in ".pdf" in any case is answered 400, and at no point of that
\* request is a temporary file created or a collaborator called.
C4_BadFilenameIs400 ==
  ( /\ request.route = "/predict"
    /\ doc_model # NoModel
    /\ request.has_file
    /\ (request.filename = <<>> \/ ~EndsPdfAnyCase(request.filename)) )
  =>
  /\ pc = "done"
  /\ response.status = 400
  /\ calls = <<>>
  /\ temp_file = Unbound

\* A filename that contains ".pdf" without ending in it, answered 400.
C4_PdfInsideNameRefused ==
  /\ Done("/predict")
  /\ doc_model # NoModel
  /\ request.has_file
  /\ IsSubstring(S_pdf, request.filename)
  /\ ~EndsPdfAnyCase(request.filename)
  /\ response.status = 400

\* C5: an /enrich request whose JSON body has no key 'address' is answered
\* 400 with an error message and the scraping library is not called; a body
\* that has the key is not answered with that message.
C5_MissingAddressIs400 ==
  Done("/enrich") =>
    IF HasAddressKey(request.json)
      THEN ~(response.status = 400 /\ calls = <<>>)
      ELSE /\ response.status = 400
           /\ "error" \in DOMAIN response.body
           /\ calls = <<>>

C7_NoRowsIs200 ==
  ( /\ Done("/enrich")
    /\ Len(calls) = 1
    /\ calls[1].status = "ok"
    /\ (calls[1].out.t # "DataFrame" \/ Len(calls[1].out.data) = 0) )
  =>
  /\ response.status = 200
  /\ response.body.success
  /\ response.body.count = 0
  /\ response.body.properties = <<>>
  /\ response.body.message = "No properties found for the given address"

\* An empty table came back.
C7_EmptyTableAnswered ==
  /\ Done("/enrich")
  /\ Len(calls) = 1
  /\ calls[1].status = "ok"
  /\ calls[1].out.t = "DataFrame"
  /\ Len(calls[1].out.data) = 0

\* The request input is missing or malformed.
BadInput ==
  \/ /\ request.route = "/predict"
     /\ \/ ~request.has_file
        \/ request.filename = <<>>
        \/ ~EndsPdfAnyCase(request.filename)
  \/ /\ request.route = "/enrich"
     /\ ~HasAddressKey(request.json)

\* A call of the current request raised.
Raised(k) == calls[k].status \in {"Exception", "ValueError"}

StatusAgrees ==
  pc = "done" =>
    /\ request.route = "/" =>
         (response.body.document_classification_model = "loaded")
           <=> (doc_model # NoModel)
    /\ request.route = "/api-info" =>
         /\ (response.body.model_status = "loaded") <=> (doc_model # NoModel)
         /\ (response.body.status = "available") <=> (doc_model # NoModel)
    /\ request.route = "/model-info" =>
         /\ (response.status = 503) <=> (doc_model = NoModel)
         /\ response.body.model_loaded <=> (doc_model # NoModel)
    /\ request.route = "/predict" =>
         (response.status = 503) <=> (doc_model = NoModel)

\* C10: once startup is over no step changes the handle, and every status a
\* route reports is the handle's.
C10_HandleFixed ==
  [][(pc # "startup" => doc_model' = doc_model) /\ StatusAgrees']_vars

\* The health check reports a loaded handle after a /predict request failed.
C10_StatusAfterFailure ==
  /\ Done("/")
  /\ DOMAIN tempfs # {}
  /\ response.body.document_classification_model = "loaded"

====
